---- MODULE Spec2Model ----
(***************************************************************************)
(* Model of the testcontainers pipeline (package testcontainers):          *)
(* the definition builder and its options, the image source, the          *)
(* Creator/Starter decorator chains, and the orchestrator's Run and Info.  *)
(*                                                                         *)
(* The runtime client (DockerClient), the readiness strategies             *)
(* (wait.Strategy) and the logger are external: the runtime is modelled    *)
(* by the container table it keeps and the requests it receives, and a     *)
(* runtime call or a readiness wait succeeds or fails nondeterministically.*)
(* Every blocking external call of Run is one step of the calling          *)
(* process, so that several Run calls interleave at exactly those points.  *)
(*                                                                         *)
(* Three specifications drive the same operations:                         *)
(*   BuildSpec  the builder alone: FromImage and NewGenericContainer with  *)
(*              every option list within the bounds, options applied       *)
(*              afterwards, and direct Prepare calls on the source;        *)
(*   Spec       the pipeline: NumCalls Run calls, one at a time (and Info  *)
(*              on what they return), on a definition built from the       *)
(*              options that matter to the pipeline, which other code may  *)
(*              go on changing while a Run is in flight;                   *)
(*   ConcSpec   the pipeline with NumConcurrent Run calls in flight.       *)
(***************************************************************************)
EXTENDS Integers, Sequences, FiniteSets, TLC

\* ---------------------------------------------------------------- bounds
NumCalls == 1        \* Run calls in one behaviour of Spec
NumConcurrent == 2   \* Run calls (goroutines) in one behaviour of ConcSpec
MaxPrepareCalls == 2 \* direct Prepare calls on the image source
MaxOpts == 2         \* GenericContainerOptions applied to the definition
MaxPortArgs == 2     \* ports passed to one WithExposedPorts
MaxSrcOpts == 1      \* FromImageSourceOptions passed to FromImage
MaxInfoCalls == 2    \* Info calls on one started container

\* ------------------------------------------------------------ value sets
Procs == 1..NumCalls
ConcProcs == 1..NumConcurrent
Images == {"nginx", "redis"}
PlatformArgs == {"linux/amd64", "linux/arm64"}
Ports == {"80/tcp", "443/tcp"}
Strategies == {"ForLog", "ForListeningPort"}
CallerContexts == {"ctxA", "ctxB"}
Background == "context.Background"

NoErr == "nil"
ErrPrepare == "image resolution failed"
ErrCreate == "runtime create failed"
ErrStart == "runtime start failed"
ErrWait == "readiness timeout"

\* The empty container id "" (ids the runtime assigns are 1, 2, ...).
EmptyID == 0

RECURSIVE SeqsUpTo(_, _)
SeqsUpTo(S, n) ==
    IF n = 0 THEN {<<>>}
    ELSE LET shorter == SeqsUpTo(S, n - 1)
         IN  shorter \cup {Append(s, x) : s \in {t \in shorter : Len(t) = n - 1}, x \in S}

\* ------------------------------------------------------- zero / nil values
NilSource == [kind |-> "nil"]
NilCreator == [kind |-> "nil"]
NilStarter == [kind |-> "nil"]
NilTerminator == [kind |-> "nil"]
NilPlatform == [kind |-> "nil"]

\* GenericContainerDefinition{}
ZeroDefinition ==
    [imageSource |-> NilSource, exposedPorts |-> <<>>, creator |-> NilCreator,
     starter |-> NilStarter, terminator |-> NilTerminator]

\* CreatedContainer{}
ZeroCreated == [ID |-> EmptyID, definition |-> ZeroDefinition]

\* StartedContainer{}
ZeroStarted == [CreatedContainer |-> ZeroCreated]

\* a nil *StartedContainer
NilHandle == [nil |-> TRUE, val |-> ZeroStarted]

\* ---------------------------------------------------------- image source
\* WithImagePlatform(platform)(s)
WithImagePlatform(platform, s) ==
    [s EXCEPT !.platform = [kind |-> "Platform", Architecture |-> "amd64", OS |-> "linux"]]

RECURSIVE ApplySrcOpts(_, _)
ApplySrcOpts(s, option) ==
    IF option = <<>> THEN s
    ELSE ApplySrcOpts(WithImagePlatform(Head(option), s), Tail(option))

\* FromImage(image, option...)
FromImage(image, option) ==
    ApplySrcOpts([kind |-> "FromImage", image |-> image, platform |-> NilPlatform], option)

\* A ContainerImageSource of another implementation, whose Prepare fails.
FailingSource == [kind |-> "Failing", image |-> "", platform |-> NilPlatform]

\* A Prepare that qualifies the reference with the platform when one is set.
PreparePlatformQualified(f) ==
    IF f.kind # "FromImage" THEN [ref |-> "", err |-> ErrPrepare]
    ELSE IF f.platform = NilPlatform THEN [ref |-> f.image, err |-> NoErr]
    ELSE [ref |-> f.image \o "@" \o f.platform.OS \o "/" \o f.platform.Architecture,
          err |-> NoErr]

\* ContainerImageSource.Prepare(ctx): FromImageSource returns (f.image, nil).
Prepare(f) ==
    IF f.kind = "FromImage" THEN [ref |-> f.image, err |-> NoErr]
    ELSE [ref |-> "", err |-> ErrPrepare]

\* ------------------------------------------------------ definition options
\* An option value: the closure WithExposedPorts(ports...) or WaitingFor(wait).
PortsOption(ports) == [opt |-> "WithExposedPorts", ports |-> ports, wait |-> ""]
WaitOption(w) == [opt |-> "WaitingFor", ports |-> <<>>, wait |-> w]

Options ==
    {PortsOption(ps) : ps \in SeqsUpTo(Ports, MaxPortArgs)} \cup {WaitOption(w) : w \in Strategies}

\* The options that change what Run does: the readiness waits, and one exposed port.
PipelineOptions ==
    {WaitOption(w) : w \in Strategies} \cup {PortsOption(<< "80/tcp" >>)}

RECURSIVE AppendEach(_, _)
AppendEach(list, ports) ==
    IF ports = <<>> THEN list
    ELSE AppendEach(Append(list, Head(ports)), Tail(ports))

RECURSIVE AppendNew(_, _)
AppendNew(list, ports) ==
    IF ports = <<>> THEN list
    ELSE AppendNew(IF \E i \in DOMAIN list : list[i] = Head(ports) THEN list
                   ELSE Append(list, Head(ports)),
                   Tail(ports))

\* An option that adds only the ports the definition does not list yet.
WithExposedPortsDedup(ports, c) ==
    [c EXCEPT !.exposedPorts = AppendNew(c.exposedPorts, ports)]

\* WithExposedPorts(ports...)(c)
WithExposedPorts(ports, c) ==
    [c EXCEPT !.exposedPorts = AppendEach(c.exposedPorts, ports)]

\* WaitingFor(wait)(c)
WaitingFor(w, c) ==
    [c EXCEPT !.starter = [kind |-> "Awaiting", ContainerStarter |-> c.starter, wait |-> w]]

\* opt(c) for an option value
ApplyOpt(o, c) ==
    IF o.opt = "WithExposedPorts" THEN WithExposedPorts(o.ports, c)
    ELSE WaitingFor(o.wait, c)

RECURSIVE ApplyOpts(_, _)
ApplyOpts(c, option) ==
    IF option = <<>> THEN c
    ELSE ApplyOpts(ApplyOpt(Head(option), c), Tail(option))

\* Testcontainers.NewGenericContainer(source, option...)
NewGenericContainerDef(source, option) ==
    ApplyOpts([imageSource |-> source,
               exposedPorts |-> <<>>,
               creator |-> [kind |-> "Logging", ContainerCreator |-> [kind |-> "Image"]],
               starter |-> [kind |-> "Docker"],
               terminator |-> NilTerminator],
              option)

\* ------------------------------------------------------------- creators
\* ContainerImageCreator.Create, first half: definition.imageSource.Prepare(ctx)
ImageCreatorPrepare(definition) == Prepare(definition.imageSource)

\* The request c.client.ContainerCreate(ctx, nil, nil, nil, nil, "") puts on the
\* wire: every configuration argument is nil, the container name is empty.
CreateRequest(p, ctx, image, definition) ==
    [op |-> "ContainerCreate", call |-> p, ctx |-> ctx, id |-> EmptyID,
     image |-> "", ports |-> <<>>]

\* A creator that reports a failed Prepare as a failed runtime create.
ImageCreatorPrepareFailedAsCreate(err) == [container |-> ZeroCreated, err |-> ErrCreate]

\* ContainerImageCreator.Create, the return after a failed Prepare
ImageCreatorPrepareFailed(err) == [container |-> ZeroCreated, err |-> err]

\* ContainerImageCreator.Create, the return after the runtime answered
\* A creator that reports the same container id for every create.
ImageCreatorResultSharedID(definition, createdID, err) ==
    IF err # NoErr THEN [container |-> ZeroCreated, err |-> err]
    ELSE [container |-> [ID |-> 1, definition |-> definition], err |-> NoErr]

ImageCreatorResult(definition, createdID, err) ==
    IF err # NoErr THEN [container |-> ZeroCreated, err |-> err]
    ELSE [container |-> [ID |-> createdID, definition |-> definition], err |-> NoErr]

\* One observable step of a call: a log line, a method entered, an external call.
Event(e, a) == [e |-> e, a |-> a]

\* A context handed to one stage of a call.
StageCtx(stage, ctx) == [stage |-> stage, ctx |-> ctx]

\* LoggingContainerCreator.Create: what it logs and calls before the inner
\* creator returns, and the definition it hands to the inner creator
LoggingCreateEnter(creator, definition) ==
    [events |-> << Event("log.Info", "Creating container"),
                   Event("Creator.Create", creator.ContainerCreator.kind) >>,
     definition |-> definition]

\* LoggingContainerCreator.Create: what it logs once the inner creator returned
LoggingCreateLog(inner) ==
    IF inner.err # NoErr THEN << Event("log.Error", "Failed to create container") >>
    ELSE << Event("log.Info", "Created container") >>

\* A logging decorator that reports the failure and then swallows it.
LoggingCreateResultSwallow(inner) == [container |-> inner.container, err |-> NoErr]

\* LoggingContainerCreator.Create: what it returns (create, err)
LoggingCreateResult(inner) == [container |-> inner.container, err |-> inner.err]

\* ------------------------------------------------------------- starters
\* A start request that names no container.
StartRequestNoID(p, ctx, container) ==
    [op |-> "ContainerStart", call |-> p, ctx |-> ctx, id |-> EmptyID,
     image |-> "", ports |-> <<>>]

\* The request d.client.ContainerStart(ctx, container.ID, StartOptions{})
StartRequest(p, ctx, container) ==
    [op |-> "ContainerStart", call |-> p, ctx |-> ctx, id |-> container.ID,
     image |-> "", ports |-> <<>>]

\* A starter that returns a fresh StartedContainer{} instead of wrapping container.
DockerStartResultEmpty(container, err) ==
    [started |-> ZeroStarted, err |-> err]

\* DockerContainerStarter.Start, the return after the runtime answered
DockerStartResult(container, err) ==
    IF err # NoErr THEN [started |-> ZeroStarted, err |-> err]
    ELSE [started |-> [CreatedContainer |-> container], err |-> NoErr]

\* A chain in which each decorator waits before it delegates.
RECURSIVE WaitsOfOutermostFirst(_)
WaitsOfOutermostFirst(starter) ==
    IF starter.kind = "Awaiting"
    THEN << starter.wait >> \o WaitsOfOutermostFirst(starter.ContainerStarter)
    ELSE <<>>

\* The wait strategies of a starter chain in the order their decorators reach
\* a.wait.WaitUntilReady: each AwaitingContainerStarter delegates first.
RECURSIVE WaitsOf(_)
WaitsOf(starter) ==
    IF starter.kind = "Awaiting" THEN Append(WaitsOf(starter.ContainerStarter), starter.wait)
    ELSE <<>>

\* The Start methods entered by container.starter.Start, outermost first.
RECURSIVE StartEvents(_)
StartEvents(starter) ==
    IF starter.kind = "Awaiting"
    THEN << Event("Starter.Start", "Awaiting") >> \o StartEvents(starter.ContainerStarter)
    ELSE << Event("Starter.Start", starter.kind) >>

\* A decorator that waits whatever the inner Start returned.
AwaitingProceedsAlways(inner) == TRUE

\* AwaitingContainerStarter.Start: whether it goes on to the wait after the
\* inner Start returned (if err != nil { return started, err })
AwaitingProceeds(inner) == inner.err = NoErr

\* AwaitingContainerStarter.Start, the return when the inner Start failed
AwaitingInnerFailed(inner) == [started |-> inner.started, err |-> inner.err]

\* AwaitingContainerStarter.Start, the return after WaitUntilReady answered
AwaitingResult(inner, waitErr) ==
    IF waitErr # NoErr THEN [started |-> inner.started, err |-> waitErr]
    ELSE [started |-> inner.started, err |-> NoErr]

\* ------------------------------------------------------------ orchestrator
\* WithContext(ctx)(conf), folded over the execution options
\* A configuration in which the first WithContext option wins.
BuildConfFirstWins(conf, option) ==
    IF option = <<>> THEN conf ELSE [conf EXCEPT !.ctx = Head(option)]

RECURSIVE BuildConf(_, _)
BuildConf(conf, option) ==
    IF option = <<>> THEN conf
    ELSE BuildConf([conf EXCEPT !.ctx = Head(option)], Tail(option))

\* Run / Info: conf := &ExecutionConfiguration{ctx: context.Background()}; opts
NewConf(option) == BuildConf([ctx |-> Background], option)

\* A Run that hands back an empty handle instead of nil when Create failed.
RunCreateFailedEmptyHandle(create) ==
    [handle |-> [nil |-> FALSE, val |-> ZeroStarted], err |-> create.err]

\* Testcontainers.Run: if err != nil { return nil, err } after creator.Create
RunCreateFailed(create) == [handle |-> NilHandle, err |-> create.err]

\* Testcontainers.Run: the return after container.starter.Start
\* A Run that returns the StartedContainer together with the error of Start.
RunResultKeepsHandle(start) ==
    [handle |-> [nil |-> FALSE, val |-> start.started], err |-> start.err]

RunResult(start) ==
    IF start.err # NoErr THEN [handle |-> NilHandle, err |-> start.err]
    ELSE [handle |-> [nil |-> FALSE, val |-> start.started], err |-> NoErr]

\* A Run that removes the container again when Start failed.
RunAfterStartRollback(p, ctx, created, start) ==
    IF start.err # NoErr
    THEN << [op |-> "ContainerRemove", call |-> p, ctx |-> ctx, id |-> created.ID,
             image |-> "", ports |-> <<>>] >>
    ELSE <<>>

\* Testcontainers.Run: the runtime requests it issues once Start has returned
RunAfterStartRequests(p, ctx, created, start) == <<>>

\* ContainerInfo.Host()
Host(ci) == ""

\* ContainerInfo.MappedPort(port)
MappedPort(ci, port) == ""

\* Testcontainers.Info(container, option...)
InfoResult(container, option) == [info |-> [kind |-> "ContainerInfo"], err |-> NoErr]

\* -------------------------------------------------------------- runtime
\* The runtime's container table after it served the requests reqs.
RECURSIVE RuntimeServe(_, _)
RuntimeServe(table, reqs) ==
    IF reqs = <<>> THEN table
    ELSE LET r == Head(reqs)
             next == IF r.op \in {"ContainerStop", "ContainerRemove"} /\ r.id \in DOMAIN table
                     THEN [table EXCEPT ![r.id] = "removed"]
                     ELSE table
         IN  RuntimeServe(next, Tail(reqs))

\* ---------------------------------------------------------------- state
VARIABLES
    def,          \* the *GenericContainerDefinition the caller holds
    srcArgs,      \* the arguments FromImage was called with
    optsApplied,  \* the options applied to def so far, in order
    prepared,     \* what the direct Prepare calls on def's source returned, in order
    containers,   \* runtime: container id -> "created" | "running" | "removed"
    call          \* per Run call: position, locals, results, observable steps,
                  \* and the requests it sent to the runtime, in order

vars == << def, srcArgs, optsApplied, prepared, containers, call >>

Built == def.creator # NilCreator

NoResultC == [container |-> ZeroCreated, err |-> NoErr]
NoResultS == [started |-> ZeroStarted, err |-> NoErr]

IdleCall ==
    [pc |-> "idle", conf |-> [ctx |-> Background], arg |-> ZeroDefinition,
     innerArg |-> ZeroDefinition, image |-> "", innerCreate |-> NoResultC,
     create |-> NoResultC, starter |-> NilStarter, startInner |-> NoResultS,
     waited |-> 0, start |-> NoResultS, ret |-> [handle |-> NilHandle, err |-> NoErr],
     trace |-> <<>>, requests |-> <<>>, infos |-> <<>>,
     options |-> <<>>,     \* the ExecutionOptions the call was given
     ctxs |-> <<>>,        \* the context each stage was handed, in order
     waitErrs |-> <<>>]    \* what each WaitUntilReady returned, in order

\* The ExecutionOption lists a call is given: none, and two WithContext
\* options that name different contexts.
ExecOptLists == {<<>>, << "ctxA", "ctxB" >>}

\* The state once the package is loaded (var tc), with no definition built yet,
\* for the calls procs
InitFor(procs) ==
    /\ def = ZeroDefinition
    /\ srcArgs = [image |-> "", option |-> <<>>, failing |-> FALSE]
    /\ optsApplied = <<>>
    /\ prepared = <<>>
    /\ containers = <<>>
    /\ call = [p \in procs |-> IdleCall]

Init == InitFor(Procs)

ConcInit == InitFor(ConcProcs)

\* testcontainers.NewGenericContainer(FromImage(image, so...), option...)
NewGenericContainerOf(srcOptLists, optLists) ==
    /\ ~Built
    /\ \E image \in Images, so \in srcOptLists, option \in optLists :
          /\ def' = NewGenericContainerDef(FromImage(image, so), option)
          /\ srcArgs' = [image |-> image, option |-> so, failing |-> FALSE]
          /\ optsApplied' = option
    /\ UNCHANGED << prepared, containers, call >>

\* opt(def): a GenericContainerOption applied to the definition after it was built
ApplyOptionOf(options) ==
    /\ Built
    /\ Len(optsApplied) < MaxOpts
    /\ \E o \in options :
          /\ def' = ApplyOpt(o, def)
          /\ optsApplied' = Append(optsApplied, o)
    /\ UNCHANGED << srcArgs, prepared, containers, call >>

\* BuildSpec: FromImage with any option list, NewGenericContainer with any option list
BuildGenericContainer ==
    NewGenericContainerOf(SeqsUpTo(PlatformArgs, MaxSrcOpts), SeqsUpTo(Options, MaxOpts))

\* BuildSpec: any option applied to the built definition
BuildApplyOption == ApplyOptionOf(Options)

\* BuildSpec: def.imageSource.Prepare(ctx), called directly
PrepareCall ==
    /\ Built
    /\ Len(prepared) < MaxPrepareCalls
    /\ prepared' = Append(prepared, Prepare(def.imageSource))
    /\ UNCHANGED << def, srcArgs, optsApplied, containers, call >>

\* Spec, ConcSpec: NewGenericContainer(FromImage(image), option...)
NewGenericContainer ==
    NewGenericContainerOf({<<>>}, SeqsUpTo(PipelineOptions, MaxOpts))

\* Spec, ConcSpec: NewGenericContainer(source, option...) with a source of
\* another ContainerImageSource implementation, whose Prepare returns an error
NewGenericContainerFailing ==
    /\ ~Built
    /\ \E option \in SeqsUpTo(PipelineOptions, MaxOpts) :
          /\ def' = NewGenericContainerDef(FailingSource, option)
          /\ optsApplied' = option
    /\ srcArgs' = [image |-> "", option |-> <<>>, failing |-> TRUE]
    /\ UNCHANGED << prepared, containers, call >>

\* Spec, ConcSpec: an option applied to the definition, possibly while a Run is in flight
ApplyOption == ApplyOptionOf(PipelineOptions)

\* Run, from its entry to the ContainerCreate call (or to its return when
\* Prepare fails): conf, container.creator.Create(conf.ctx, *container)
RunCall(p) ==
    /\ Built
    /\ call[p].pc = "idle"
    /\ \A q \in DOMAIN call : q < p => call[q].pc # "idle"   \* calls are numbered as they begin
    /\ \E option \in ExecOptLists :
          LET conf == NewConf(option)
              enter == LoggingCreateEnter(def.creator, def)
              prep == ImageCreatorPrepare(enter.definition)
              inner == ImageCreatorPrepareFailed(prep.err)
              create == LoggingCreateResult(inner)
              seen == enter.events \o << Event("Prepare", enter.definition.imageSource.kind) >>
              handed == << StageCtx("LoggingContainerCreator.Create", conf.ctx),
                           StageCtx("ContainerImageCreator.Create", conf.ctx),
                           StageCtx("Prepare", conf.ctx) >>
          IN  IF prep.err # NoErr
              THEN call' = [call EXCEPT ![p] =
                      [@ EXCEPT !.conf = conf, !.arg = def, !.innerArg = enter.definition,
                                !.options = option, !.ctxs = handed,
                                !.innerCreate = inner, !.create = create,
                                !.trace = seen \o LoggingCreateLog(inner),
                                !.pc = IF create.err # NoErr THEN "done" ELSE "start",
                                !.ret = IF create.err # NoErr THEN RunCreateFailed(create)
                                        ELSE @]]
              ELSE call' = [call EXCEPT ![p] =
                      [@ EXCEPT !.conf = conf, !.arg = def, !.innerArg = enter.definition,
                                !.options = option, !.ctxs = handed,
                                !.image = prep.ref, !.trace = seen, !.pc = "create"]]
    /\ UNCHANGED << def, srcArgs, optsApplied, prepared, containers >>

\* Spec: a Run call made while no other Run call is in flight
RunCallAlone(p) ==
    /\ \A q \in DOMAIN call : call[q].pc \in {"idle", "done"}
    /\ RunCall(p)

\* The runtime answers ContainerCreate; ContainerImageCreator.Create and
\* LoggingContainerCreator.Create return; Run checks the error (lines 110-135, 245)
RtCreate(p) ==
    /\ call[p].pc = "create"
    /\ \E err \in {NoErr, ErrCreate} :
          LET c == call[p]
              id == IF err = NoErr THEN Len(containers) + 1 ELSE EmptyID
              inner == ImageCreatorResult(c.innerArg, id, err)
              create == LoggingCreateResult(inner)
          IN  /\ containers' = IF err = NoErr THEN Append(containers, "created") ELSE containers
              /\ call' = [call EXCEPT ![p] =
                      [@ EXCEPT !.innerCreate = inner, !.create = create,
                                !.requests = Append(@, CreateRequest(p, c.conf.ctx, c.image,
                                                                     c.innerArg)),
                                !.trace = @ \o << Event("ContainerCreate", "") >>
                                            \o LoggingCreateLog(inner),
                                !.pc = IF create.err # NoErr THEN "done" ELSE "start",
                                !.ret = IF create.err # NoErr THEN RunCreateFailed(create)
                                        ELSE @]]
    /\ UNCHANGED << def, srcArgs, optsApplied, prepared >>

\* Run returns after container.starter.Start returned start (lines 250-254),
\* having sent the runtime the requests after
Returned(c, start, after) ==
    [c EXCEPT !.start = start, !.ret = RunResult(start), !.pc = "done",
              !.requests = @ \o after]

\* Run calls container.starter.Start(conf.ctx, created): the decorators
\* delegate down to DockerContainerStarter.Start, the runtime answers
\* ContainerStart, and the chain goes on to its first wait or returns
RtStart(p) ==
    /\ call[p].pc = "start"
    /\ \E err \in {NoErr, ErrStart} :
          LET c == call[p]
              container == c.create.container
              starter == def.starter
              inner == DockerStartResult(container, err)
              entered == [c EXCEPT !.starter = starter, !.startInner = inner,
                                   !.requests = Append(@, StartRequest(p, c.conf.ctx, container)),
                                   !.ctxs = Append(@, StageCtx("Starter.Start", c.conf.ctx)),
                                   !.trace = @ \o StartEvents(starter)
                                               \o << Event("ContainerStart", "") >>]
              after == RunAfterStartRequests(p, c.conf.ctx, container, inner)
              table == IF err = NoErr THEN [containers EXCEPT ![container.ID] = "running"]
                       ELSE containers
          IN  /\ err = NoErr => container.ID \in DOMAIN containers
              /\ IF WaitsOf(starter) = <<>>
                 THEN /\ call' = [call EXCEPT ![p] = Returned(entered, inner, after)]
                      /\ containers' = RuntimeServe(table, after)
                 ELSE IF ~AwaitingProceeds(inner)
                 THEN /\ call' = [call EXCEPT ![p] =
                              Returned(entered, AwaitingInnerFailed(inner), after)]
                      /\ containers' = RuntimeServe(table, after)
                 ELSE /\ call' = [call EXCEPT ![p] =
                              [entered EXCEPT !.start = inner, !.pc = "wait"]]
                      /\ containers' = table
    /\ UNCHANGED << def, srcArgs, optsApplied, prepared >>

\* The strategy of the next AwaitingContainerStarter answers WaitUntilReady;
\* the chain goes on to the next wait or returns
Wait(p) ==
    /\ call[p].pc = "wait"
    /\ \E err \in {NoErr, ErrWait} :
          LET c == call[p]
              waits == WaitsOf(c.starter)
              w == waits[c.waited + 1]
              res == AwaitingResult(c.start, err)
              stepped == [c EXCEPT !.waited = @ + 1,
                                   !.waitErrs = Append(@, err),
                                   !.ctxs = Append(@, StageCtx("WaitUntilReady", c.conf.ctx)),
                                   !.trace = Append(@, Event("WaitUntilReady", w))]
              after == RunAfterStartRequests(p, c.conf.ctx, c.create.container, res)
          IN  IF c.waited + 1 = Len(waits)
              THEN /\ call' = [call EXCEPT ![p] = Returned(stepped, res, after)]
                   /\ containers' = RuntimeServe(containers, after)
              ELSE IF ~AwaitingProceeds(res)
              THEN /\ call' = [call EXCEPT ![p] =
                           Returned(stepped, AwaitingInnerFailed(res), after)]
                   /\ containers' = RuntimeServe(containers, after)
              ELSE /\ call' = [call EXCEPT ![p] = [stepped EXCEPT !.start = res]]
                   /\ UNCHANGED containers
    /\ UNCHANGED << def, srcArgs, optsApplied, prepared >>

\* An Info that asks the runtime to start the container before it reports on it.
InfoCallRestarting(p) ==
    /\ call[p].pc = "done"
    /\ ~call[p].ret.handle.nil
    /\ Len(call[p].infos) < MaxInfoCalls
    /\ \E option \in ExecOptLists :
          LET conf == NewConf(option)
              r == InfoResult(call[p].ret.handle.val, option)
          IN  call' = [call EXCEPT ![p] =
                  [@ EXCEPT !.infos =
                         Append(@, [host |-> Host(r.info),
                                    mapped |-> [port \in Ports |-> MappedPort(r.info, port)],
                                    err |-> r.err]),
                            !.requests =
                         Append(@, StartRequest(p, conf.ctx,
                                                call[p].ret.handle.val.CreatedContainer))]]
    /\ UNCHANGED << def, srcArgs, optsApplied, prepared, containers >>

\* testcontainers.Info(container, option...) on the handle a Run returned
InfoCall(p) ==
    /\ call[p].pc = "done"
    /\ ~call[p].ret.handle.nil
    /\ Len(call[p].infos) < MaxInfoCalls
    /\ \E option \in ExecOptLists :
          LET conf == NewConf(option)
              r == InfoResult(call[p].ret.handle.val, option)
          IN  call' = [call EXCEPT ![p].infos =
                  Append(@, [host |-> Host(r.info),
                             mapped |-> [port \in Ports |-> MappedPort(r.info, port)],
                             err |-> r.err])]
    /\ UNCHANGED << def, srcArgs, optsApplied, prepared, containers >>

Next ==
    \/ NewGenericContainer
    \/ NewGenericContainerFailing
    \/ ApplyOption
    \/ \E p \in DOMAIN call : RunCallAlone(p)
    \/ \E p \in DOMAIN call : RtCreate(p)
    \/ \E p \in DOMAIN call : RtStart(p)
    \/ \E p \in DOMAIN call : Wait(p)
    \/ \E p \in DOMAIN call : InfoCall(p)

Spec == Init /\ [][Next]_vars

ConcNext ==
    \/ NewGenericContainer
    \/ NewGenericContainerFailing
    \/ ApplyOption
    \/ \E p \in DOMAIN call : RunCall(p)
    \/ \E p \in DOMAIN call : RtCreate(p)
    \/ \E p \in DOMAIN call : RtStart(p)
    \/ \E p \in DOMAIN call : Wait(p)
    \/ \E p \in DOMAIN call : InfoCall(p)

ConcSpec == ConcInit /\ [][ConcNext]_vars

BuildNext ==
    \/ BuildGenericContainer
    \/ BuildApplyOption
    \/ PrepareCall

BuildSpec == Init /\ [][BuildNext]_vars

\* ================================================================ claims
Count(seq, ev) == Cardinality({i \in DOMAIN seq : seq[i] = ev})
Has(seq, name) == \E i \in DOMAIN seq : seq[i].e = name
Sent(c, op) == \E i \in DOMAIN c.requests : c.requests[i].op = op
StartedID(h) == h.val.CreatedContainer.ID

\* C1: in every Run call whose container.creator.Create returned an error
\* (from image resolution or from the runtime create call), Run returns a nil
\* handle and exactly that error, and in that call no Start method is entered,
\* no start request is sent and no readiness wait is made.
CreateFailureShortCircuits ==
    \A p \in DOMAIN call :
        LET c == call[p]
        IN  (c.pc # "idle" /\ c.create.err # NoErr) =>
                /\ c.pc = "done"
                /\ c.ret.handle.nil
                /\ c.ret.err = c.create.err
                /\ c.ret.err \in {ErrPrepare, ErrCreate}
                /\ ~Has(c.trace, "Starter.Start")
                /\ ~Has(c.trace, "ContainerStart")
                /\ ~Has(c.trace, "WaitUntilReady")
                /\ ~Sent(c, "ContainerStart")

\* C1 witness: a Run on a definition with a readiness wait has returned after the
\* runtime refused the create request.
CreateFailureSeen ==
    \E p \in DOMAIN call :
        /\ call[p].pc = "done"
        /\ call[p].create.err = ErrCreate
        /\ def.starter.kind = "Awaiting"

\* C2: in every Run call on a definition built with WaitingFor in which the
\* runtime start succeeded and the readiness strategy returned an error, Run
\* returns a non-nil StartedContainer carrying the created id, together with
\* that wait error.
WaitFailureReturnsStartedContainer ==
    \A p \in DOMAIN call :
        LET c == call[p]
        IN  (c.pc = "done" /\ c.starter.kind = "Awaiting"
             /\ c.startInner.err = NoErr /\ c.start.err = ErrWait) =>
                /\ ~c.ret.handle.nil
                /\ StartedID(c.ret.handle) = c.create.container.ID
                /\ c.ret.err = ErrWait

\* C3: in every call of the readiness-awaiting decorator whose inner Start
\* returned an error, WaitUntilReady is not invoked in that call and the
\* decorator returns the inner result and error.
InnerStartFailureSkipsWait ==
    \A p \in DOMAIN call :
        LET c == call[p]
        IN  (c.starter.kind = "Awaiting" /\ c.startInner.err # NoErr) =>
                /\ c.pc = "done"
                /\ ~Has(c.trace, "WaitUntilReady")
                /\ c.waited = 0
                /\ c.start.started = c.startInner.started
                /\ c.start.err = c.startInner.err

\* C3 witness: a Start through an awaiting decorator has returned after the
\* runtime start request failed.
InnerStartFailureSeen ==
    \E p \in DOMAIN call :
        /\ call[p].pc = "done"
        /\ call[p].starter.kind = "Awaiting"
        /\ call[p].startInner.err = ErrStart

\* C4: every Run call that returns a nil error returns a StartedContainer whose
\* ID equals the ID of the CreatedContainer the Create stage of the same call
\* produced, which is the id the runtime assigned, and that ID is not empty.
SuccessfulRunKeepsCreatedID ==
    \A p \in DOMAIN call :
        LET c == call[p]
        IN  (c.pc = "done" /\ c.ret.err = NoErr) =>
                /\ ~c.ret.handle.nil
                /\ StartedID(c.ret.handle) = c.innerCreate.container.ID
                /\ StartedID(c.ret.handle) = c.create.container.ID
                /\ StartedID(c.ret.handle) # EmptyID
                /\ StartedID(c.ret.handle) \in DOMAIN containers

\* C4 witness: a Run has returned without error.
SuccessfulRunSeen ==
    \E p \in DOMAIN call : call[p].pc = "done" /\ call[p].ret.err = NoErr

\* C5: when Create succeeded and the runtime start request then failed, the
\* caller of Run receives the error together with a handle that carries the
\* created container's runtime id.
StartFailureReturnsCreatedHandle ==
    \A p \in DOMAIN call :
        LET c == call[p]
        IN  (c.pc = "done" /\ c.create.err = NoErr /\ c.startInner.err = ErrStart) =>
                /\ c.ret.err = ErrStart
                /\ ~c.ret.handle.nil
                /\ StartedID(c.ret.handle) = c.create.container.ID

\* C6: no Run call ever sends the runtime a stop or remove request, and when a
\* Run returns after Create succeeded and Start failed, the container it
\* created is still in state created (allocated, not running).
NoCompensatingRollback ==
    \A p \in DOMAIN call :
        LET c == call[p]
        IN  /\ ~Sent(c, "ContainerStop")
            /\ ~Sent(c, "ContainerRemove")
            /\ (c.pc = "done" /\ c.create.err = NoErr /\ c.startInner.err # NoErr) =>
                    /\ c.create.container.ID \in DOMAIN containers
                    /\ containers[c.create.container.ID] = "created"

\* C6 witness: a Run has returned after its create succeeded and its start failed.
StartFailureSeen ==
    \E p \in DOMAIN call :
        /\ call[p].pc = "done"
        /\ call[p].create.err = NoErr
        /\ call[p].startInner.err = ErrStart

\* The position of the first event named name in seq (0 when there is none).
IndexOf(seq, name) ==
    IF Has(seq, name) THEN CHOOSE i \in DOMAIN seq : seq[i].e = name /\ \A j \in 1..(i - 1) : seq[j].e # name
    ELSE 0

LogCount(seq, msg) ==
    Cardinality({i \in DOMAIN seq : seq[i].e \in {"log.Info", "log.Error"} /\ seq[i].a = msg})

\* C7: in every call of the logging Creator decorator the inner Creator.Create
\* is invoked exactly once, with the definition the decorator was given, and
\* the decorator returns exactly the CreatedContainer and error the inner call
\* returned; "Creating container" is logged before the delegation, and after
\* it exactly one of "Failed to create container" / "Created container",
\* matching the inner outcome.
LoggingCreatorDelegatesOnce ==
    \A p \in DOMAIN call :
        LET c == call[p]
            t == c.trace
            failed == LogCount(t, "Failed to create container")
            created == LogCount(t, "Created container")
        IN  (c.pc # "idle") =>
                /\ Count(t, Event("Creator.Create", "Image")) = 1
                /\ c.innerArg = c.arg
                /\ LogCount(t, "Creating container") = 1
                /\ t[1] = Event("log.Info", "Creating container")
                /\ IndexOf(t, "Creator.Create") = 2
                /\ IF c.pc = "create"
                   THEN failed = 0 /\ created = 0
                   ELSE /\ c.create.container = c.innerCreate.container
                        /\ c.create.err = c.innerCreate.err
                        /\ failed + created = 1
                        /\ (failed = 1) <=> (c.innerCreate.err # NoErr)
                        /\ \E i \in DOMAIN t :
                              /\ i > IndexOf(t, "Creator.Create")
                              /\ t[i].a \in {"Failed to create container", "Created container"}
                              /\ t[i].e = IF c.innerCreate.err # NoErr THEN "log.Error"
                                          ELSE "log.Info"

\* C7 witness: the decorator has returned after its inner Create failed at the
\* runtime, having logged the failure.
LoggingCreatorFailureSeen ==
    \E p \in DOMAIN call :
        /\ call[p].pc = "done"
        /\ call[p].innerCreate.err = ErrCreate
        /\ Has(call[p].trace, "log.Error")

RECURSIVE PortsSupplied(_)
PortsSupplied(option) ==
    IF option = <<>> THEN <<>>
    ELSE (IF Head(option).opt = "WithExposedPorts" THEN Head(option).ports ELSE <<>>)
         \o PortsSupplied(Tail(option))

RECURSIVE PortsPassed(_)
PortsPassed(option) ==
    IF option = <<>> THEN 0
    ELSE (IF Head(option).opt = "WithExposedPorts" THEN Len(Head(option).ports) ELSE 0)
         + PortsPassed(Tail(option))

\* C8: the definition's exposed-port list equals the concatenation of the port
\* arguments of the WithExposedPorts options applied to it, in the order
\* supplied: its length is the number of ports passed, duplicates included.
ExposedPortsArePureAppend ==
    Built =>
        /\ def.exposedPorts = PortsSupplied(optsApplied)
        /\ Len(def.exposedPorts) = PortsPassed(optsApplied)

\* C8 witness: two WithExposedPorts options were applied, the second repeating
\* a port of the first, and the definition lists the port twice.
DuplicatePortKept ==
    /\ Built
    /\ Len(optsApplied) = 2
    /\ optsApplied[1].opt = "WithExposedPorts" /\ optsApplied[2].opt = "WithExposedPorts"
    /\ \E i \in DOMAIN optsApplied[1].ports, j \in DOMAIN optsApplied[2].ports :
          optsApplied[1].ports[i] = optsApplied[2].ports[j]
    /\ \E i, j \in DOMAIN def.exposedPorts : i < j /\ def.exposedPorts[i] = def.exposedPorts[j]

\* C9: for every image string i and every list of FromImage options, each
\* Prepare call on FromImage(i, options...) returns (i, nil), so repeated calls
\* return the same reference; the call leaves the source (and the definition
\* holding it) as it was and changes nothing at the runtime.
PrepareReturnsStoredImage ==
    [][(prepared' # prepared) =>
          /\ Len(prepared') = Len(prepared) + 1
          /\ \A i \in DOMAIN prepared' :
                prepared'[i].ref = srcArgs.image /\ prepared'[i].err = NoErr
          /\ def' = def
          /\ def'.imageSource.image = srcArgs.image
          /\ containers' = containers
          /\ call' = call]_vars

\* C9 witness: Prepare was called twice on a source built with WithImagePlatform.
PreparedTwiceWithPlatform ==
    /\ Len(prepared) = 2
    /\ srcArgs.option # <<>>
    /\ def.imageSource.platform # NilPlatform

\* The ports of the definition a started container was created from.
ExposedBy(h) ==
    {h.val.CreatedContainer.definition.exposedPorts[i] :
        i \in DOMAIN h.val.CreatedContainer.definition.exposedPorts}

\* C10: after a successful Run of a definition that exposes port p, Info on the
\* returned StartedContainer reports a non-empty host and a non-empty mapped
\* port for p.
InfoReportsHostAndMappedPort ==
    \A p \in DOMAIN call :
        \A i \in DOMAIN call[p].infos :
            \A port \in ExposedBy(call[p].ret.handle) :
                /\ call[p].infos[i].err = NoErr
                /\ call[p].infos[i].host # ""
                /\ call[p].infos[i].mapped[port] # ""

\* C11: every Info call on a StartedContainer returns the same result as the
\* Info calls before it, leaves the StartedContainer, its definition and the
\* caller's definition unchanged, sends the runtime no request, and leaves the
\* runtime's container table (the lifecycle state of every container) as it was.
InfoIsIdempotentAndPure ==
    [][\A p \in DOMAIN call :
          (call'[p].infos # call[p].infos) =>
              /\ Len(call'[p].infos) = Len(call[p].infos) + 1
              /\ \A i, j \in DOMAIN call'[p].infos : call'[p].infos[i] = call'[p].infos[j]
              /\ call'[p].ret = call[p].ret
              /\ call'[p].requests = call[p].requests
              /\ [call'[p] EXCEPT !.infos = call[p].infos] = call[p]
              /\ \A q \in DOMAIN call : q # p => call'[q] = call[q]
              /\ def' = def
              /\ containers' = containers]_vars

\* C11 witness: Info was called twice on the container a Run returned.
InfoCalledTwice ==
    \E p \in DOMAIN call :
        /\ Len(call[p].infos) = 2
        /\ ~call[p].ret.handle.nil
        /\ containers[StartedID(call[p].ret.handle)] = "running"

RECURSIVE WaitsSupplied(_)
WaitsSupplied(option) ==
    IF option = <<>> THEN <<>>
    ELSE (IF Head(option).opt = "WaitingFor" THEN << Head(option).wait >> ELSE <<>>)
         \o WaitsSupplied(Tail(option))

RECURSIVE WaitsInvoked(_)
WaitsInvoked(t) ==
    IF t = <<>> THEN <<>>
    ELSE (IF Head(t).e = "WaitUntilReady" THEN << Head(t).a >> ELSE <<>>)
         \o WaitsInvoked(Tail(t))

\* C12: a Start through the starter of a definition built with WaitingFor(w1),
\* ..., WaitingFor(wn) sends the start request exactly once and before any
\* wait, then invokes w1, ..., wn in the order the options were supplied; when
\* the start request or some wi fails, no later wait is invoked and that first
\* error is returned; when nothing fails, every wait of the chain was invoked.
WaitsRunInOptionOrder ==
    \A p \in DOMAIN call :
        LET c == call[p]
            t == c.trace
            invoked == WaitsInvoked(t)
            supplied == WaitsSupplied(optsApplied)
            n == Len(invoked)
        IN  (c.starter # NilStarter) =>
                /\ Count(t, Event("ContainerStart", "")) = 1
                /\ Cardinality({i \in DOMAIN c.requests :
                                   c.requests[i].op = "ContainerStart"}) = 1
                /\ \A i \in DOMAIN t :
                      t[i].e = "WaitUntilReady" => i > IndexOf(t, "ContainerStart")
                /\ n <= Len(supplied)
                /\ invoked = SubSeq(supplied, 1, n)
                /\ Len(c.waitErrs) = n
                /\ \A i \in 1..(n - 1) : c.waitErrs[i] = NoErr
                /\ (c.startInner.err # NoErr) =>
                      n = 0 /\ c.pc = "done" /\ c.ret.err = c.startInner.err
                /\ (n > 0 /\ c.waitErrs[n] # NoErr) =>
                      c.pc = "done" /\ c.ret.err = c.waitErrs[n]
                /\ (c.pc = "done" /\ c.ret.err = NoErr) =>
                      /\ n = Count(t, Event("Starter.Start", "Awaiting"))
                      /\ (c.starter = def.starter => invoked = supplied)

\* C12 witness: a Run on a definition built with two different strategies has
\* returned without error after both waits.
TwoWaitsDone ==
    \E p \in DOMAIN call :
        /\ call[p].pc = "done"
        /\ call[p].ret.err = NoErr
        /\ Len(WaitsInvoked(call[p].trace)) = 2
        /\ WaitsInvoked(call[p].trace)[1] # WaitsInvoked(call[p].trace)[2]

\* C13: in the base runtime Creator, when Prepare returns an error, Create
\* returns that error with an empty-ID CreatedContainer and sends the runtime no
\* create request; the create request is sent only after Prepare succeeded; a
\* runtime create error is returned as it is with an empty-ID CreatedContainer;
\* the ID is non-empty exactly when Create returned no error.
ImageCreatorForwardsErrors ==
    \A p \in DOMAIN call :
        LET c == call[p]
            t == c.trace
        IN  /\ (c.pc # "idle" /\ srcArgs.failing) =>
                  /\ c.innerCreate.err = ErrPrepare
                  /\ c.innerCreate.container.ID = EmptyID
                  /\ c.requests = <<>>
                  /\ ~Has(t, "ContainerCreate")
            /\ (Sent(c, "ContainerCreate") \/ Has(t, "ContainerCreate")) =>
                  /\ ~srcArgs.failing
                  /\ Has(t, "Prepare")
                  /\ IndexOf(t, "Prepare") < IndexOf(t, "ContainerCreate")
                  /\ c.requests[1].op = "ContainerCreate"
                  /\ c.innerCreate.err \in {NoErr, ErrCreate}
            /\ (c.innerCreate.err = ErrCreate) =>
                  /\ Sent(c, "ContainerCreate")
                  /\ c.innerCreate.container.ID = EmptyID
            /\ (c.pc \notin {"idle", "create"}) =>
                  /\ (c.innerCreate.err = NoErr) <=> (c.innerCreate.container.ID # EmptyID)
                  /\ (c.innerCreate.err = NoErr) =>
                         c.innerCreate.container.ID \in DOMAIN containers

\* C13 witness: a Create on a source whose Prepare fails has returned.
PrepareFailureSeen ==
    \E p \in DOMAIN call :
        /\ call[p].pc = "done"
        /\ srcArgs.failing
        /\ call[p].innerCreate.err = ErrPrepare
        /\ Has(call[p].trace, "Prepare")

\* C14: the create request the base runtime Creator sends carries the image
\* reference Prepare returned and the exposed-port list of the definition.
CreateRequestCarriesImageAndPorts ==
    \A p \in DOMAIN call :
        \A i \in DOMAIN call[p].requests :
            (call[p].requests[i].op = "ContainerCreate") =>
                /\ call[p].requests[i].image = call[p].image
                /\ call[p].requests[i].image = srcArgs.image
                /\ call[p].requests[i].ports = call[p].innerArg.exposedPorts

RequestsOf(c, op) == {i \in DOMAIN c.requests : c.requests[i].op = op}

\* C15: every Run call sends at most one create request and at most one start
\* request; the start request comes after the create request of the same call
\* returned successfully and names the id that create returned; a non-nil
\* StartedContainer is returned only after a successful start of the
\* CreatedContainer with that id.
RunIsLinear ==
    \A p \in DOMAIN call :
        LET c == call[p]
        IN  /\ Cardinality(RequestsOf(c, "ContainerCreate")) <= 1
            /\ Cardinality(RequestsOf(c, "ContainerStart")) <= 1
            /\ Len(c.requests) <= 2
            /\ Sent(c, "ContainerStart") =>
                  /\ Len(c.requests) = 2
                  /\ c.requests[1].op = "ContainerCreate"
                  /\ c.requests[2].op = "ContainerStart"
                  /\ c.create.err = NoErr
                  /\ c.requests[2].id = c.innerCreate.container.ID
                  /\ c.requests[2].id # EmptyID
            /\ (~c.ret.handle.nil \/ c.start.started # ZeroStarted) =>
                  /\ Sent(c, "ContainerStart")
                  /\ c.startInner.err = NoErr
                  /\ c.start.started.CreatedContainer = c.create.container
                  /\ c.start.started.CreatedContainer.ID = c.requests[2].id
                  /\ containers[c.requests[2].id] = "running"

\* C15 witness: a Run has returned a StartedContainer after one create and one
\* start request.
LinearRunDone ==
    \E p \in DOMAIN call :
        /\ call[p].pc = "done"
        /\ ~call[p].ret.handle.nil
        /\ Len(call[p].requests) = 2

\* The context a call with these execution options runs under.
CtxGiven(options) == IF options = <<>> THEN Background ELSE options[Len(options)]

\* C16: within one Run call every stage (Creator.Create, Prepare, the create
\* and the start request, every readiness wait) receives the context of the
\* last WithContext option of that call, or the background context when the
\* call has no such option, whatever contexts other Run or Info calls were
\* given.
EveryStageGetsTheCallContext ==
    \A p \in DOMAIN call :
        LET c == call[p]
            ctx == CtxGiven(c.options)
        IN  (c.pc # "idle") =>
                /\ c.conf.ctx = ctx
                /\ Len(c.ctxs) >= 3
                /\ \A i \in DOMAIN c.ctxs : c.ctxs[i].ctx = ctx
                /\ \A i \in DOMAIN c.requests : c.requests[i].ctx = ctx
                /\ Len(c.ctxs) >= 3 + Len(c.waitErrs)

\* C16 witness: a Run given two WithContext options has made its requests and
\* a wait, and a later Run given none has made its requests too.
TwoCallsUnderDifferentContexts ==
    \E p, q \in DOMAIN call :
        /\ p < q
        /\ call[p].options = << "ctxA", "ctxB" >>
        /\ Len(call[p].requests) = 2
        /\ Len(call[p].waitErrs) >= 1
        /\ Len(call[p].infos) >= 1
        /\ call[q].options = <<>>
        /\ Len(call[q].requests) = 2
        /\ call[q].requests[2].ctx = Background

\* The error a Run returns when it alone receives these responses.
OutcomeAlone(c) ==
    IF c.innerCreate.err # NoErr THEN c.innerCreate.err
    ELSE IF c.startInner.err # NoErr THEN c.startInner.err
    ELSE IF c.waitErrs # <<>> /\ c.waitErrs[Len(c.waitErrs)] # NoErr
         THEN c.waitErrs[Len(c.waitErrs)]
    ELSE NoErr

\* C17: under every interleaving of concurrent Run calls, two calls never
\* hold the same container id, each call starts only the id its own create
\* request returned and returns that id when it succeeds, and the error and
\* the handle it returns are those that its own runtime responses give.
ConcurrentRunsAreIndependent ==
    \A p \in DOMAIN call :
        LET c == call[p]
            own == c.innerCreate.container.ID
        IN  /\ \A q \in DOMAIN call :
                  (q # p /\ own # EmptyID) => call[q].innerCreate.container.ID # own
            /\ \A i \in DOMAIN c.requests :
                  /\ c.requests[i].call = p
                  /\ (c.requests[i].op = "ContainerStart") =>
                        (c.requests[i].id = own /\ own # EmptyID)
            /\ (c.pc = "done") =>
                  /\ c.ret.err = OutcomeAlone(c)
                  /\ (c.ret.err = NoErr) =>
                        /\ ~c.ret.handle.nil
                        /\ StartedID(c.ret.handle) = own
                        /\ c.ret.handle.val.CreatedContainer = c.innerCreate.container
                  /\ (c.ret.err # NoErr) => c.ret.handle = NilHandle

\* C17 witness: two Run calls were in flight together and both succeeded, the
\* one that began first holding the id that was created last.
InterleavedRunsDone ==
    \E p, q \in DOMAIN call :
        /\ p < q
        /\ call[p].pc = "done" /\ call[q].pc = "done"
        /\ ~call[p].ret.handle.nil /\ ~call[q].ret.handle.nil
        /\ StartedID(call[p].ret.handle) > StartedID(call[q].ret.handle)

\* C18: the decorator stack a Run uses is the one of the definition as it was
\* when the Run began: the starter the Run invokes is the starter of that
\* definition, and the definition recorded in its CreatedContainer is that
\* definition, whatever options are applied to the definition meanwhile.
RunUsesStackFixedAtBegin ==
    \A p \in DOMAIN call :
        LET c == call[p]
        IN  /\ (c.starter # NilStarter) => c.starter = c.arg.starter
            /\ (c.create # NoResultC /\ c.create.err = NoErr) =>
                   c.create.container.definition = c.arg

\* C19: every Run call that has returned has returned a non-nil handle
\* exactly when it returned a nil error, and a call that has not returned yet
\* holds neither.
RunReturnsHandleXorError ==
    \A p \in DOMAIN call :
        /\ (call[p].pc = "done") => (call[p].ret.handle.nil <=> call[p].ret.err # NoErr)
        /\ (call[p].pc # "done") => (call[p].ret.handle.nil /\ call[p].ret.err = NoErr)

\* C19 witness: a Run whose start request succeeded has returned the error of
\* a readiness wait with a nil handle.
WaitFailureReturned ==
    \E p \in DOMAIN call :
        /\ call[p].pc = "done"
        /\ call[p].startInner.err = NoErr
        /\ call[p].ret.err = ErrWait
        /\ call[p].ret.handle.nil

\* The architecture and OS a platform string "os/arch" names.
PlatformNamed(p) ==
    [kind |-> "Platform",
     Architecture |-> IF p = "linux/amd64" THEN "amd64" ELSE "arm64",
     OS |-> "linux"]

\* C20: the platform stored on a FromImage source is the architecture and OS
\* named by the platform string of its WithImagePlatform option, and no
\* platform when the source was built without that option.
StoredPlatformIsSupplied ==
    (Built /\ ~srcArgs.failing) =>
        IF srcArgs.option = <<>>
        THEN def.imageSource.platform = NilPlatform
        ELSE def.imageSource.platform = PlatformNamed(srcArgs.option[Len(srcArgs.option)])

====
